---- MODULE Spec2Model ----
(***************************************************************************)
(* Model of package envfile (env.go): Marshal, Unmarshal and               *)
(* parseFieldOpts.                                                         *)
(*                                                                         *)
(* A Go string is a sequence of one-character strings, so that trimming,   *)
(* splitting, upper-casing and line scanning are computed character by     *)
(* character.  A struct type is a sequence of field declarations           *)
(* [name, kind, tag] (tag is the value of the `env` key of the field tag); *)
(* a struct value is the sequence of its field values, in declaration      *)
(* order.  Fields are exported fields, as in the package's tests and       *)
(* examples.                                                               *)
(***************************************************************************)
EXTENDS Integers, Sequences, FiniteSets, TLC

(***************************************************************************)
(* Bounds of the model.                                                    *)
(***************************************************************************)
MaxFields == 2
MaxLines == 2
MaxTagTokens == 3

(***************************************************************************)
(* Strings.                                                                *)
(***************************************************************************)
NoStr == <<>>

\* unicode.IsSpace restricted to the characters of the model
IsSpace(c) == c \in {" ", "\t"}

RECURSIVE TrimLeft(_)
TrimLeft(s) ==
    IF s # <<>> /\ IsSpace(Head(s)) THEN TrimLeft(Tail(s)) ELSE s

RECURSIVE TrimRight(_)
TrimRight(s) ==
    IF s # <<>> /\ IsSpace(s[Len(s)])
    THEN TrimRight(SubSeq(s, 1, Len(s) - 1))
    ELSE s

\* faulty variant: trailing white space is kept
TrimSpaceLeftOnly(s) == TrimLeft(s)

\* strings.TrimSpace
TrimSpace(s) == TrimRight(TrimLeft(s))

\* strings.HasPrefix
HasPrefix(s, p) == Len(s) >= Len(p) /\ SubSeq(s, 1, Len(p)) = p

\* strings.Index for a one-character separator: 0 when absent
RECURSIVE IndexFrom(_, _, _)
IndexFrom(s, c, k) ==
    IF k > Len(s) THEN 0
    ELSE IF s[k] = c THEN k
    ELSE IndexFrom(s, c, k + 1)

Index(s, c) == IndexFrom(s, c, 1)

\* faulty variant: the split is at the last separator
SplitAtLast(s, sep) ==
    LET ks == { k \in 1..Len(s) : s[k] = sep } IN
    IF ks = {} THEN <<s>>
    ELSE LET k == CHOOSE x \in ks : \A y \in ks : x >= y IN
         <<SubSeq(s, 1, k - 1), SubSeq(s, k + 1, Len(s))>>

\* strings.SplitN(s, sep, 2)
SplitN2(s, sep) ==
    LET k == Index(s, sep) IN
    IF k = 0 THEN <<s>>
    ELSE <<SubSeq(s, 1, k - 1), SubSeq(s, k + 1, Len(s))>>

\* strings.Split(s, sep)
RECURSIVE Split(_, _)
Split(s, sep) ==
    LET k == Index(s, sep) IN
    IF k = 0 THEN <<s>>
    ELSE <<SubSeq(s, 1, k - 1)>> \o Split(SubSeq(s, k + 1, Len(s)), sep)

\* unicode.ToUpper restricted to the letters of the model
UpperChar(c) ==
    CASE c = "b" -> "B"
      [] c = "k" -> "K"
      [] c = "p" -> "P"
      [] c = "v" -> "V"
      [] c = "w" -> "W"
      [] c = "x" -> "X"
      [] OTHER -> c

\* strings.ToUpper
ToUpper(s) == [k \in 1..Len(s) |-> UpperChar(s[k])]

\* bufio.ScanLines: the next token of the unread input, and what is left
\* (the documents of the model hold no carriage return and no line of
\* bufio.MaxScanTokenSize bytes, so scanner.Err() is nil)
LineToken(rest) ==
    LET k == Index(rest, "\n") IN
    IF k = 0 THEN rest ELSE SubSeq(rest, 1, k - 1)

LineRest(rest) ==
    LET k == Index(rest, "\n") IN
    IF k = 0 THEN <<>> ELSE SubSeq(rest, k + 1, Len(rest))

(***************************************************************************)
(* parseFieldOpts.                                                         *)
(***************************************************************************)
omitempty == <<"o", "m", "i", "t", "e", "m", "p", "t", "y">>

\* faulty variant: the first option counts as a flag too
HasOmitEmptyAnywhere(options, k) ==
    \E j \in 1..Len(options) : options[j] = omitempty

\* the loop over options[1:]
RECURSIVE HasOmitEmpty(_, _)
HasOmitEmpty(options, k) ==
    IF k > Len(options) THEN FALSE
    ELSE IF options[k] = omitempty THEN TRUE
    ELSE HasOmitEmpty(options, k + 1)

\* faulty variant: "-" is a key like any other
parseFieldOptsDashKey(field) ==
    LET options == Split(field.tag, ",")
        OmitEmpty == IF Len(options) > 1 THEN HasOmitEmpty(options, 2) ELSE FALSE
    IN  IF options[1] = <<>>
        THEN [name |-> ToUpper(field.name), Skip |-> FALSE, OmitEmpty |-> OmitEmpty]
        ELSE [name |-> options[1], Skip |-> FALSE, OmitEmpty |-> OmitEmpty]

parseFieldOpts(field) ==
    LET options == Split(field.tag, ",")
        OmitEmpty == IF Len(options) > 1 THEN HasOmitEmpty(options, 2) ELSE FALSE
    IN  CASE options[1] = <<"-">> ->
               [name |-> NoStr, Skip |-> TRUE, OmitEmpty |-> OmitEmpty]
          [] options[1] = <<>> ->
               [name |-> ToUpper(field.name), Skip |-> FALSE, OmitEmpty |-> OmitEmpty]
          [] OTHER ->
               [name |-> options[1], Skip |-> FALSE, OmitEmpty |-> OmitEmpty]

(***************************************************************************)
(* Values of the program.                                                  *)
(***************************************************************************)
NoError == [type |-> "nil"]
ErrorUnsupportedType(k) == [type |-> "ErrorUnsupportedType", Kind |-> k]
ErrorLineParsing(n) == [type |-> "ErrorLineParsing", LineNumber |-> n]
\* a run-time panic of package reflect
Panic == [type |-> "panic"]

\* the zero value of a field of kind k
\* (an int is written in decimal)
Zero(k) == IF k = "string" THEN NoStr ELSE <<"0">>

ZeroValues(fields) == [k \in 1..Len(fields) |-> Zero(fields[k].kind)]

\* reflect.TypeOf(v) == nil and reflect.ValueOf(v).Kind() for the nil interface
NilValue == [kind |-> "invalid", isnil |-> TRUE, elem |-> "none", fields |-> <<>>]
Scalar(k) == [kind |-> k, isnil |-> FALSE, elem |-> "none", fields |-> <<>>]
StructValue(fields) == [kind |-> "struct", isnil |-> FALSE, elem |-> "none", fields |-> fields]
NilPointer(k, fields) == [kind |-> "ptr", isnil |-> TRUE, elem |-> k, fields |-> fields]
PointerTo(k, fields) == [kind |-> "ptr", isnil |-> FALSE, elem |-> k, fields |-> fields]

(***************************************************************************)
(* Inputs.                                                                 *)
(***************************************************************************)
\* the name of the k-th field of a struct: Kb, Kbb, ...
FieldName(k) == <<"K">> \o [j \in 1..k |-> "b"]

FieldDecls ==
    { [kind |-> "string", tag |-> <<>>],
      [kind |-> "string", tag |-> <<"K", "B">>],
      [kind |-> "string", tag |-> <<"K", "B", ",">> \o omitempty],
      [kind |-> "string", tag |-> <<"-">>],
      [kind |-> "int", tag |-> <<"K", "B", ",">> \o omitempty],
      [kind |-> "int", tag |-> <<"-">>] }

SeqsUpTo(S, n) == UNION { [1..k -> S] : k \in 0..n }

StructTypes ==
    { [k \in 1..Len(ds) |-> [name |-> FieldName(k), kind |-> ds[k].kind, tag |-> ds[k].tag]] :
        ds \in SeqsUpTo(FieldDecls, MaxFields) }

\* field values of the records given to Marshal
Values == { <<>>, <<" ", "v">>, <<"v", "=", "w">>, <<"v", "\n", "w">> }

ValuesOf(fields, S) ==
    { vs \in [1..Len(fields) -> S \cup {<<"1">>}] :
        \A k \in 1..Len(fields) :
            IF fields[k].kind = "string" THEN vs[k] \in S ELSE vs[k] = <<"1">> }

\* field values of the records Unmarshal decodes into
PreValues == { <<"p">> }

Lines ==
    { <<" ", "K", "B", " ", "=", " ", "w", "=", "v", " ">>,
      <<"K", "B", "=">>,
      <<"K", "b", "=", "w">>,
      <<" ", "#", "K", "B", "=", "v">>,
      <<>>,
      <<"K", "B", " ", "v">> }

\* the lines of a document joined by line feeds
RECURSIVE Join(_, _)
Join(ss, sep) ==
    IF ss = <<>> THEN <<>>
    ELSE IF Len(ss) = 1 THEN ss[1]
    ELSE ss[1] \o sep \o Join(Tail(ss), sep)

TagTokens == { <<>>, <<"-">>, <<"K">>, omitempty, <<"x">> }

\* a tag is its options joined by commas
Tags == { toks \in SeqsUpTo(TagTokens, MaxTagTokens) : toks # <<>> }

Documents == SeqsUpTo(Lines, MaxLines)

MarshalInputs ==
    { <<NilValue, <<>>>>, <<Scalar("string"), <<>>>>, <<Scalar("int"), <<>>>>,
      <<PointerTo("struct", <<>>), <<>>>> }
    \cup UNION { { <<StructValue(t), vs>> : vs \in ValuesOf(t, Values) } : t \in StructTypes }

UnmarshalTargets ==
    { <<NilValue, <<>>>>, <<Scalar("string"), <<>>>>, <<StructValue(<<>>), <<>>>>,
      <<NilPointer("struct", <<>>), <<>>>>,
      <<PointerTo("string", <<>>), <<>>>>, <<PointerTo("int", <<>>), <<>>>> }
    \cup UNION { { <<PointerTo("struct", t), vs>> : vs \in ValuesOf(t, PreValues) } :
                   t \in StructTypes }

(***************************************************************************)
(* State.                                                                  *)
(***************************************************************************)
VARIABLES
    op,      \* the function called: "Marshal", "Unmarshal" or "parseFieldOpts"
    call,    \* "direct", or "roundtrip" for Unmarshal(Marshal(r), &r2)
    v,       \* the argument v (its type and, for a pointer, whether it is nil)
    vals,    \* the field values of the struct v is or points to
    rest,    \* what the scanner has not read yet of Unmarshal's argument data
    count,   \* Unmarshal's line counter
    pc,      \* "start", "loop", "scan", "done"
    i,       \* the field loop's index
    buf,     \* Marshal's buffer
    out,     \* the bytes Marshal returned
    err,     \* the error returned
    opts,    \* what parseFieldOpts returned
    lines,   \* the lines data was written from (direct calls of Unmarshal)
    toks,    \* the options the tag was written from (calls of parseFieldOpts)
    vals0,   \* the field values before the call
    orig     \* the record Marshal encoded (round trip)

vars == <<op, call, v, vals, rest, count, pc, i, buf, out, err, opts,
          lines, toks, vals0, orig>>

NoOpts == [name |-> NoStr, Skip |-> FALSE, OmitEmpty |-> FALSE]

InitCommon ==
    /\ call = "direct"
    /\ count = 0
    /\ i = 0
    /\ buf = <<>>
    /\ out = <<>>
    /\ err = NoError
    /\ opts = NoOpts
    /\ orig = <<>>
    /\ vals0 = vals

InitMarshal ==
    /\ op = "Marshal"
    /\ pc = "start"
    /\ \E in \in MarshalInputs : v = in[1] /\ vals = in[2]
    /\ rest = <<>> /\ lines = <<>> /\ toks = <<>>
    /\ InitCommon

InitUnmarshal ==
    /\ op = "Unmarshal"
    /\ pc = "scan"
    /\ \E in \in UnmarshalTargets : v = in[1] /\ vals = in[2]
    /\ lines \in Documents
    /\ rest = Join(lines, <<"\n">>)
    /\ toks = <<>>
    /\ InitCommon

InitResolve ==
    /\ op = "parseFieldOpts"
    /\ pc = "start"
    /\ toks \in Tags
    /\ \E k \in 1..MaxFields, kind \in {"string", "int"} :
          v = StructValue(<<[name |-> FieldName(k), kind |-> kind, tag |-> Join(toks, <<",">>)]>>)
    /\ vals = <<>>
    /\ rest = <<>> /\ lines = <<>>
    /\ InitCommon

Init == InitMarshal \/ InitUnmarshal \/ InitResolve

(***************************************************************************)
(* parseFieldOpts, called on its own.                                      *)
(***************************************************************************)
Resolve ==
    /\ op = "parseFieldOpts" /\ pc = "start"
    /\ opts' = parseFieldOpts(v.fields[1])
    /\ pc' = "done"
    /\ UNCHANGED <<op, call, v, vals, rest, count, i, buf, out, err,
                   lines, toks, vals0, orig>>

(***************************************************************************)
(* Marshal.                                                                *)
(***************************************************************************)
\* t == nil
MarshalNil ==
    /\ op = "Marshal" /\ pc = "start"
    /\ v.kind = "invalid"
    /\ out' = <<>> /\ err' = NoError /\ pc' = "done"
    /\ UNCHANGED <<op, call, v, vals, rest, count, i, buf, opts,
                   lines, toks, vals0, orig>>

\* t.Kind() != reflect.Struct
MarshalNotStruct ==
    /\ op = "Marshal" /\ pc = "start"
    /\ v.kind \notin {"invalid", "struct"}
    /\ out' = <<>> /\ err' = ErrorUnsupportedType(v.kind) /\ pc' = "done"
    /\ UNCHANGED <<op, call, v, vals, rest, count, i, buf, opts,
                   lines, toks, vals0, orig>>

MarshalStruct ==
    /\ op = "Marshal" /\ pc = "start"
    /\ v.kind = "struct"
    /\ i' = 1 /\ pc' = "loop"
    /\ UNCHANGED <<op, call, v, vals, rest, count, buf, out, err, opts,
                   lines, toks, vals0, orig>>

\* faulty variant: the value is trimmed
FprintfTrimmed(b, keyname, value) ==
    b \o keyname \o <<"=">> \o TrimSpace(value) \o <<"\n">>

\* fmt.Fprintf(&buf, "%s=%s\n", keyname, value)
Fprintf(b, keyname, value) == b \o keyname \o <<"=">> \o value \o <<"\n">>

\* one iteration of the loop over the fields
MarshalField ==
    /\ op = "Marshal" /\ pc = "loop"
    /\ i <= Len(v.fields)
    /\ LET field == v.fields[i]
           o == parseFieldOpts(field)
       IN  /\ opts' = o
           /\ IF o.Skip
              THEN /\ i' = i + 1
                   /\ UNCHANGED <<buf, out, err, pc>>
              ELSE IF field.kind = "string"
              THEN /\ buf' = IF ~(o.OmitEmpty /\ vals[i] = <<>>)
                             THEN Fprintf(buf, o.name, vals[i])
                             ELSE buf
                   /\ i' = i + 1
                   /\ UNCHANGED <<out, err, pc>>
              ELSE /\ out' = <<>>
                   /\ err' = ErrorUnsupportedType(field.kind)
                   /\ pc' = "done"
                   /\ UNCHANGED <<buf, i>>
    /\ UNCHANGED <<op, call, v, vals, rest, count, lines, toks, vals0, orig>>

\* return buf.Bytes(), nil
MarshalReturn ==
    /\ op = "Marshal" /\ pc = "loop"
    /\ i > Len(v.fields)
    /\ out' = buf /\ err' = NoError /\ pc' = "done"
    /\ UNCHANGED <<op, call, v, vals, rest, count, i, buf, opts,
                   lines, toks, vals0, orig>>

(***************************************************************************)
(* Unmarshal.                                                              *)
(***************************************************************************)
\* faulty variant: omitempty is looked at before the kind of the field
RECURSIVE FieldLoopOmitFirst(_, _, _, _)
FieldLoopOmitFirst(fields, vs, kv, k) ==
    IF k > Len(fields) THEN [vals |-> vs, i |-> k, err |-> NoError]
    ELSE LET o == parseFieldOpts(fields[k]) IN
         IF o.Skip THEN FieldLoopOmitFirst(fields, vs, kv, k + 1)
         ELSE IF TrimSpace(kv[1]) = o.name /\ ~(o.OmitEmpty /\ kv[2] = <<>>)
         THEN IF fields[k].kind = "string"
              THEN FieldLoopOmitFirst(fields, [vs EXCEPT ![k] = TrimSpace(kv[2])], kv, k + 1)
              ELSE [vals |-> vs, i |-> k, err |-> ErrorUnsupportedType(fields[k].kind)]
         ELSE FieldLoopOmitFirst(fields, vs, kv, k + 1)

\* the loop over the fields for one key/value line, from field k on:
\* the field values, the index and the error it ends with
RECURSIVE FieldLoop(_, _, _, _)
FieldLoop(fields, vs, kv, k) ==
    IF k > Len(fields) THEN [vals |-> vs, i |-> k, err |-> NoError]
    ELSE LET o == parseFieldOpts(fields[k]) IN
         IF o.Skip THEN FieldLoop(fields, vs, kv, k + 1)
         ELSE IF TrimSpace(kv[1]) = o.name
         THEN IF fields[k].kind = "string"
              THEN IF ~(o.OmitEmpty /\ kv[2] = <<>>)
                   THEN FieldLoop(fields, [vs EXCEPT ![k] = TrimSpace(kv[2])], kv, k + 1)
                   ELSE FieldLoop(fields, vs, kv, k + 1)
              ELSE [vals |-> vs, i |-> k, err |-> ErrorUnsupportedType(fields[k].kind)]
         ELSE FieldLoop(fields, vs, kv, k + 1)

\* line := strings.TrimSpace(scanner.Text())
ScannedLine == TrimSpace(LineToken(rest))

IsSkipped(line) == line = <<>> \/ HasPrefix(line, <<"#">>)

\* scanner.Scan() is false; scanner.Err() is nil
UnmarshalReturn ==
    /\ op = "Unmarshal" /\ pc = "scan"
    /\ rest = <<>>
    /\ err' = NoError /\ pc' = "done"
    /\ UNCHANGED <<op, call, v, vals, rest, count, i, buf, out, opts,
                   lines, toks, vals0, orig>>

\* faulty variant: blank lines and comments are not counted
UnmarshalSkipUncounted ==
    /\ op = "Unmarshal" /\ pc = "scan"
    /\ rest # <<>>
    /\ IsSkipped(ScannedLine)
    /\ rest' = LineRest(rest)
    /\ UNCHANGED <<op, call, v, vals, count, pc, i, buf, out, err, opts,
                   lines, toks, vals0, orig>>

\* a blank line or a comment
UnmarshalSkip ==
    /\ op = "Unmarshal" /\ pc = "scan"
    /\ rest # <<>>
    /\ IsSkipped(ScannedLine)
    /\ count' = count + 1
    /\ rest' = LineRest(rest)
    /\ UNCHANGED <<op, call, v, vals, pc, i, buf, out, err, opts,
                   lines, toks, vals0, orig>>

\* len(kv) != 2
UnmarshalLineError ==
    /\ op = "Unmarshal" /\ pc = "scan"
    /\ rest # <<>>
    /\ ~IsSkipped(ScannedLine)
    /\ Len(SplitN2(ScannedLine, "=")) # 2
    /\ count' = count + 1
    /\ rest' = LineRest(rest)
    /\ err' = ErrorLineParsing(count + 1) /\ pc' = "done"
    /\ UNCHANGED <<op, call, v, vals, i, buf, out, opts,
                   lines, toks, vals0, orig>>

\* rv.Kind() != reflect.Ptr || rv.IsNil()
UnmarshalBadTarget ==
    /\ op = "Unmarshal" /\ pc = "scan"
    /\ rest # <<>>
    /\ ~IsSkipped(ScannedLine)
    /\ Len(SplitN2(ScannedLine, "=")) = 2
    /\ v.kind # "ptr" \/ v.isnil
    /\ count' = count + 1
    /\ rest' = LineRest(rest)
    /\ err' = ErrorUnsupportedType(v.kind) /\ pc' = "done"
    /\ UNCHANGED <<op, call, v, vals, i, buf, out, opts,
                   lines, toks, vals0, orig>>

\* t.NumField() on a type that is not a struct
UnmarshalNotStruct ==
    /\ op = "Unmarshal" /\ pc = "scan"
    /\ rest # <<>>
    /\ ~IsSkipped(ScannedLine)
    /\ Len(SplitN2(ScannedLine, "=")) = 2
    /\ v.kind = "ptr" /\ ~v.isnil
    /\ v.elem # "struct"
    /\ count' = count + 1
    /\ rest' = LineRest(rest)
    /\ err' = Panic /\ pc' = "done"
    /\ UNCHANGED <<op, call, v, vals, i, buf, out, opts,
                   lines, toks, vals0, orig>>

\* faulty variant: a rejected line assigns nothing
UnmarshalFieldsAtomic ==
    /\ op = "Unmarshal" /\ pc = "scan"
    /\ rest # <<>>
    /\ ~IsSkipped(ScannedLine)
    /\ Len(SplitN2(ScannedLine, "=")) = 2
    /\ v.kind = "ptr" /\ ~v.isnil
    /\ v.elem = "struct"
    /\ LET r == FieldLoop(v.fields, vals, SplitN2(ScannedLine, "="), 1) IN
         /\ vals' = IF r.err = NoError THEN r.vals ELSE vals
         /\ i' = r.i
         /\ err' = r.err
         /\ pc' = IF r.err = NoError THEN "scan" ELSE "done"
    /\ count' = count + 1
    /\ rest' = LineRest(rest)
    /\ UNCHANGED <<op, call, v, buf, out, opts, lines, toks, vals0, orig>>

\* a key/value line, assigned to the fields of the struct v points to
UnmarshalFields ==
    /\ op = "Unmarshal" /\ pc = "scan"
    /\ rest # <<>>
    /\ ~IsSkipped(ScannedLine)
    /\ Len(SplitN2(ScannedLine, "=")) = 2
    /\ v.kind = "ptr" /\ ~v.isnil
    /\ v.elem = "struct"
    /\ LET r == FieldLoop(v.fields, vals, SplitN2(ScannedLine, "="), 1) IN
         /\ vals' = r.vals
         /\ i' = r.i
         /\ err' = r.err
         /\ pc' = IF r.err = NoError THEN "scan" ELSE "done"
    /\ count' = count + 1
    /\ rest' = LineRest(rest)
    /\ UNCHANGED <<op, call, v, buf, out, opts, lines, toks, vals0, orig>>

(***************************************************************************)
(* Unmarshal(Marshal(r), &r2), r2 the zero value of r's type.              *)
(***************************************************************************)
RoundTrip ==
    /\ op = "Marshal" /\ pc = "done"
    /\ v.kind = "struct" /\ err = NoError
    /\ op' = "Unmarshal" /\ call' = "roundtrip" /\ pc' = "scan"
    /\ v' = PointerTo("struct", v.fields)
    /\ orig' = vals
    /\ vals' = ZeroValues(v.fields)
    /\ vals0' = ZeroValues(v.fields)
    /\ rest' = out
    /\ count' = 0
    /\ i' = 0
    /\ UNCHANGED <<buf, out, err, opts, lines, toks>>

Next ==
    \/ Resolve
    \/ MarshalNil
    \/ MarshalNotStruct
    \/ MarshalStruct
    \/ MarshalField
    \/ MarshalReturn
    \/ UnmarshalReturn
    \/ UnmarshalSkip
    \/ UnmarshalLineError
    \/ UnmarshalBadTarget
    \/ UnmarshalNotStruct
    \/ UnmarshalFields
    \/ RoundTrip

Spec == Init /\ [][Next]_vars

(***************************************************************************)
(* Vocabulary of the properties.  The lines of a document are classified   *)
(* by the positions of their characters, not by the operators Unmarshal    *)
(* is modelled with.                                                       *)
(***************************************************************************)
Min(S) == CHOOSE x \in S : \A y \in S : x <= y
Max(S) == CHOOSE x \in S : \A y \in S : x >= y

NonSpaces(l) == { k \in 1..Len(l) : l[k] \notin {" ", "\t"} }
Equals(l) == { k \in 1..Len(l) : l[k] = "=" }

Trimmed(l) ==
    IF NonSpaces(l) = {} THEN <<>>
    ELSE [k \in 1..(Max(NonSpaces(l)) - Min(NonSpaces(l)) + 1) |-> l[Min(NonSpaces(l)) + k - 1]]

IsBlank(l) == NonSpaces(l) = {}
IsComment(l) == ~IsBlank(l) /\ l[Min(NonSpaces(l))] = "#"
\* a key/value line, and a line that is neither blank, comment nor key/value
IsKeyValue(l) == ~IsBlank(l) /\ ~IsComment(l) /\ Equals(l) # {}
IsBadLine(l) == ~IsBlank(l) /\ ~IsComment(l) /\ Equals(l) = {}

KeyOf(l) == Trimmed([k \in 1..(Min(Equals(l)) - 1) |-> l[k]])
ValueOf(l) == Trimmed([k \in 1..(Len(l) - Min(Equals(l))) |-> l[Min(Equals(l)) + k]])
\* nothing but white space follows the first '='
ValueEmpty(l) == Max(NonSpaces(l)) = Min(Equals(l))

BadLines == { n \in 1..Len(lines) : IsBadLine(lines[n]) }
KeyValueLines == { n \in 1..Len(lines) : IsKeyValue(lines[n]) }

\* the first token of the tag is exactly "-"
IsDashTag(tag) == Len(tag) >= 1 /\ tag[1] = "-" /\ (Len(tag) = 1 \/ tag[2] = ",")

FieldIds == 1..Len(v.fields)
Skipped(k) == IsDashTag(v.fields[k].tag)
KeyName(k) == parseFieldOpts(v.fields[k]).name
OmitEmpty(k) == parseFieldOpts(v.fields[k]).OmitEmpty
IsString(k) == v.fields[k].kind = "string"

\* the key/value lines whose key is the resolved key of a non-skipped,
\* non-string field, and the first such field of line n
Rejecting(n) ==
    { k \in FieldIds : ~Skipped(k) /\ ~IsString(k) /\ KeyName(k) = KeyOf(lines[n]) }
RejectedLines == { n \in KeyValueLines : Rejecting(n) # {} }

\* the first line Unmarshal fails at, 0 when there is none
FailingLines == BadLines \cup RejectedLines
FirstFailing == IF FailingLines = {} THEN 0 ELSE Min(FailingLines)

\* the lines that assign field k: key/value lines with its key, but for
\* an empty value when the field has omitempty
Assigning(k) ==
    { n \in KeyValueLines :
        /\ KeyOf(lines[n]) = KeyName(k)
        /\ ~(OmitEmpty(k) /\ ValueEmpty(lines[n])) }

\* the value of field k after the lines of S have been decoded
Decoded(k, S) ==
    IF Assigning(k) \cap S = {} THEN vals0[k]
    ELSE ValueOf(lines[Max(Assigning(k) \cap S)])

DirectUnmarshalDone == op = "Unmarshal" /\ call = "direct" /\ pc = "done"
StructTarget == v.kind = "ptr" /\ ~v.isnil /\ v.elem = "struct"

(***************************************************************************)
(* Properties.                                                             *)
(***************************************************************************)

\* C1: Unmarshal into a target that is nil, not a pointer or a nil pointer
\* returns ErrorUnsupportedType with the target's kind, whatever the
\* document is.
C1_InvalidTargetRejected ==
    (op = "Unmarshal" /\ pc = "done" /\ (v.kind # "ptr" \/ v.isnil))
        => err = ErrorUnsupportedType(v.kind)

\* C2: a record that is not a struct is an error and never a panic: Marshal
\* of a non-nil value that is no struct returns ErrorUnsupportedType with
\* its kind, and Unmarshal into a non-nil pointer to something that is no
\* struct returns an error.
C2_NonStructReported ==
    pc = "done" =>
        /\ (op = "Marshal" /\ v.kind \notin {"invalid", "struct"})
              => err = ErrorUnsupportedType(v.kind)
        /\ (op = "Unmarshal" /\ v.kind = "ptr" /\ ~v.isnil /\ v.elem # "struct")
              => err.type \in {"ErrorUnsupportedType", "ErrorLineParsing"}

C7_DecodeResult ==
    (DirectUnmarshalDone /\ StructTarget /\ BadLines = {}
        /\ \A k \in FieldIds : Skipped(k) \/ IsString(k))
        => /\ err = NoError
           /\ \A k \in FieldIds :
                ~Skipped(k) => vals[k] = Decoded(k, 1..Len(lines))

\* two fields share the key K: one keeps its pre-call value (omitempty, last
\* value empty), the other is assigned twice; a comment line is present
C7_Witness ==
    /\ DirectUnmarshalDone /\ StructTarget /\ err = NoError
    /\ Len(v.fields) = 2 /\ Len(lines) = 2
    /\ IsString(1) /\ IsString(2)
    /\ KeyName(1) = KeyName(2) /\ ~Skipped(1) /\ ~Skipped(2)
    /\ Assigning(2) = {1, 2} /\ Assigning(1) = {1}
    /\ vals[1] = <<"w", "=", "v">> /\ vals[2] = <<>>

\* C8: Unmarshal into a non-nil pointer to a struct returns
\* ErrorUnsupportedType exactly when a key/value line before every line
\* without '=' has the resolved key of a non-skipped field that is not a
\* string; the error carries the kind of the first such field of the
\* earliest such line, also for an omitempty field and an empty value.
C8_DecodeTypeRejection ==
    (DirectUnmarshalDone /\ StructTarget)
        => LET hits == { n \in RejectedLines : \A m \in BadLines : n < m } IN
           /\ err.type = "ErrorUnsupportedType" <=> hits # {}
           /\ hits # {} =>
                /\ i = Min(Rejecting(Min(hits)))
                /\ err = ErrorUnsupportedType(v.fields[i].kind)
                /\ count = Min(hits)

\* an omitempty int field is rejected by a line with its key and no value
C8_Witness ==
    /\ DirectUnmarshalDone /\ StructTarget
    /\ err = ErrorUnsupportedType("int")
    /\ Len(v.fields) = 2 /\ IsString(1) /\ ~Skipped(1) /\ i = 2 /\ OmitEmpty(2)
    /\ count = 2 /\ ValueEmpty(lines[2])

\* C10: a failed Unmarshal keeps what it assigned and does not look ahead:
\* it fails at the first failing line n, the fields hold what lines 1..n-1
\* assigned, and what line n assigned to the string fields before the
\* rejected field; no later line changes the record or the error.
C10_PartialDecode ==
    (DirectUnmarshalDone /\ StructTarget /\ err # NoError)
        => LET n == FirstFailing IN
           /\ n # 0 /\ count = n
           /\ err = IF n \in BadLines THEN ErrorLineParsing(n)
                    ELSE ErrorUnsupportedType(v.fields[Min(Rejecting(n))].kind)
           /\ \A k \in FieldIds :
                vals[k] =
                    IF Skipped(k) \/ ~IsString(k) THEN vals0[k]
                    ELSE IF n \in RejectedLines /\ k < Min(Rejecting(n))
                    THEN Decoded(k, 1..n)
                    ELSE Decoded(k, 1..(n - 1))

\* line 1 is assigned to the string field before the int field it is
\* rejected for, and line 2 is never read
C10_Witness ==
    /\ DirectUnmarshalDone /\ StructTarget
    /\ err = ErrorUnsupportedType("int")
    /\ count = 1 /\ Len(lines) = 2 /\ i = 2
    /\ vals[1] # vals0[1]
    /\ 2 \in Assigning(1)
    /\ vals[1] # ValueOf(lines[2])

\* Marshal's result for the fields fs with the values vs, field by field:
\* what the first k fields contribute to the output
RECURSIVE RefOutput(_, _, _)
RefOutput(fs, vs, k) ==
    IF k = 0 THEN <<>>
    ELSE LET o == parseFieldOpts(fs[k])
             line == IF IsDashTag(fs[k].tag) \/ (o.OmitEmpty /\ vs[k] = <<>>)
                     THEN <<>>
                     ELSE o.name \o <<"=">> \o vs[k] \o <<"\n">>
         IN  RefOutput(fs, vs, k - 1) \o line

RefMarshal(fs, vs) ==
    LET bad == { k \in 1..Len(fs) : ~IsDashTag(fs[k].tag) /\ fs[k].kind # "string" } IN
    IF bad # {}
    THEN [out |-> <<>>, err |-> ErrorUnsupportedType(fs[Min(bad)].kind)]
    ELSE [out |-> RefOutput(fs, vs, Len(fs)), err |-> NoError]

\* C5: Marshal(nil) returns no bytes and no error; Marshal of a struct
\* returns ErrorUnsupportedType with the kind of its first non-skipped
\* field that is not a string, and no bytes; otherwise no error and, in
\* declaration order, one line key=value for every non-skipped field that
\* is not an empty omitempty field, the value copied as it is.
C5_MarshalResult ==
    (op = "Marshal" /\ pc = "done") =>
        /\ v.kind = "invalid" => (out = <<>> /\ err = NoError)
        /\ v.kind = "struct" =>
              /\ out = RefMarshal(v.fields, vals).out
              /\ err = RefMarshal(v.fields, vals).err

\* two lines in declaration order, a value with leading white space copied
\* as it is, after the same key twice
C5_Witness ==
    /\ op = "Marshal" /\ pc = "done" /\ v.kind = "struct"
    /\ Len(v.fields) = 2 /\ KeyName(1) = KeyName(2)
    /\ vals[1] = <<" ", "v">> /\ vals[2] = <<"v", "=", "w">>
    /\ out = <<"K", "B", "=", " ", "v", "\n", "K", "B", "=", "v", "=", "w", "\n">>

\* the fields of Marshal's record that are not skipped, with their values
Kept(fs, vs) ==
    SelectSeq([k \in 1..Len(fs) |-> [field |-> fs[k], value |-> vs[k]]],
              LAMBDA p : ~IsDashTag(p.field.tag))
KeptFields(fs, vs) == [k \in 1..Len(Kept(fs, vs)) |-> Kept(fs, vs)[k].field]
KeptValues(fs, vs) == [k \in 1..Len(Kept(fs, vs)) |-> Kept(fs, vs)[k].value]

\* C6: a field whose tag's first token is "-" never appears: Marshal
\* returns what it returns for the record without its skipped fields,
\* Unmarshal leaves every skipped field at its pre-call value, and no
\* error of either is raised for a skipped field.
C6_SkippedFields ==
    /\ (op = "Marshal" /\ pc = "done" /\ v.kind = "struct") =>
          /\ out = RefMarshal(KeptFields(v.fields, vals), KeptValues(v.fields, vals)).out
          /\ err = RefMarshal(KeptFields(v.fields, vals), KeptValues(v.fields, vals)).err
          /\ err # NoError => ~Skipped(i)
    /\ (op = "Unmarshal" /\ StructTarget) =>
          /\ \A k \in FieldIds : Skipped(k) => vals[k] = vals0[k]
          /\ err # NoError /\ err.type = "ErrorUnsupportedType" => ~Skipped(i)

\* a skipped string field and a skipped int field, and a document with a
\* line whose key is the upper-cased name of the first
C6_Witness ==
    /\ DirectUnmarshalDone /\ StructTarget /\ err = NoError
    /\ Len(v.fields) = 2
    /\ Skipped(1) /\ IsString(1) /\ Skipped(2) /\ ~IsString(2)
    /\ \E n \in KeyValueLines : KeyOf(lines[n]) = <<"K", "B">>
    /\ vals = vals0

\* a value or key that a line of the file carries unchanged
NoLineFeed(s) == \A k \in 1..Len(s) : s[k] # "\n"
NoOuterSpace(s) == s # <<>> /\ s[1] \notin {" ", "\t"} /\ s[Len(s)] \notin {" ", "\t"}
CleanValue(s) == NoOuterSpace(s) /\ NoLineFeed(s)
CleanKey(s) == NoOuterSpace(s) /\ NoLineFeed(s) /\ Equals(s) = {} /\ s[1] # "#"

\* a plain field: a string, not skipped, not omitempty, not empty
Plain(k) == IsString(k) /\ ~Skipped(k) /\ ~OmitEmpty(k) /\ orig[k] # <<>>

RoundTripDone == op = "Unmarshal" /\ call = "roundtrip" /\ pc = "done"

\* C3 as stated: for a record of plain fields, Unmarshal(Marshal(r), &r2)
\* succeeds and r2 = r.
C3_RoundTripOriginal ==
    (RoundTripDone /\ \A k \in FieldIds : Plain(k))
        => (err = NoError /\ vals = orig)

\* C3 as amended: ... provided the resolved keys are pairwise distinct and
\* free of '=', line feeds, outer white space and a leading '#', and the
\* values are free of outer white space and line feeds.
C3_RoundTrip ==
    (/\ RoundTripDone
     /\ \A k \in FieldIds : Plain(k) /\ CleanKey(KeyName(k)) /\ CleanValue(orig[k])
     /\ \A k \in FieldIds : \A m \in FieldIds : k # m => KeyName(k) # KeyName(m))
        => (err = NoError /\ vals = orig)

\* an explicit and a default key, a value with '=' in it
C3_Witness ==
    /\ RoundTripDone /\ Len(v.fields) = 2
    /\ \A k \in FieldIds : Plain(k)
    /\ v.fields[1].tag = <<"K", "B">> /\ v.fields[2].tag = <<>>
    /\ orig = << <<"v", "=", "w">>, <<"v", "=", "w">> >>
    /\ err = NoError /\ vals = orig

\* C9: parseFieldOpts on the tag split at ',': Skip iff the first token is
\* "-"; the name is the upper-cased field name when the first token is
\* empty and the first token itself when it is neither empty nor "-";
\* OmitEmpty iff a token after the first is "omitempty"; other tokens are
\* ignored.
C9_FieldResolution ==
    (op = "parseFieldOpts" /\ pc = "done") =>
        /\ opts.Skip <=> toks[1] = <<"-">>
        /\ toks[1] = <<>> =>
              opts.name = <<"K">> \o [k \in 1..(Len(v.fields[1].name) - 1) |-> "B"]
        /\ toks[1] \notin {<<>>, <<"-">>} => opts.name = toks[1]
        /\ opts.OmitEmpty <=> \E k \in 2..Len(toks) : toks[k] = omitempty

\* "omitempty" as first token is a key, an unknown token is ignored
C9_Witness ==
    /\ op = "parseFieldOpts" /\ pc = "done"
    /\ toks = <<omitempty, <<"x">>, <<>>>>
    /\ opts = [name |-> omitempty, Skip |-> FALSE, OmitEmpty |-> FALSE]

====
